---- MODULE Spec2Model ----
(***************************************************************************)
(* The transaction scheduler of IndexedDBShim (src/src/IDBObjectStore.js): *)
(* IDBTransaction's request queue, its deferred start, the success/error   *)
(* continuations that drive the queue, the transaction-level finalizers    *)
(* and abort(), together with the synchronous checks of the object store   *)
(* facade (add, put, get, delete, clear, count) that feed the queue.       *)
(*                                                                         *)
(* JavaScript is single threaded: one action of this model is one turn of  *)
(* the event loop (a timer, a WebSQL callback, or a piece of user code),   *)
(* run to completion.  The code a turn runs is written as operators on a   *)
(* state record; an operator returns the SET of states the call can end    *)
(* in, one per behaviour of the user's handlers and of the operation's     *)
(* procedure.  The field exc says that an exception is propagating.        *)
(***************************************************************************)
EXTENDS Integers, Sequences, FiniteSets, TLC

\* Bounds of the model.
MaxOps == 2
MaxAborts == 1
MaxStores == 2
MaxKey == 2
MaxSeq == 2

\* The operations of the facade, and the ones the state machine queues: one
\* per shape of procedure.  put issues its DELETE before it reaches
\* __insertData, so it starts like add without the "failure" path; clear and
\* count hand one statement to the backend exactly as delete does.
AllKinds == {"add", "put", "get", "delete", "clear", "count"}
OpKinds == {"add", "get", "delete"}
Modes == {"readonly", "readwrite"}
\* The modes of a transaction that db.__versionTransaction may or may not be,
\* the units of work of the schema operations, and the one store they name.
SchemaModes == {"readwrite", "versionchange"}
SchemaKinds == {"createObjectStore", "deleteObjectStore"}
StoreName == "A"
ArgShapes == {"missing", "invalid", "valid"}
Ids == 1..MaxOps

VARIABLES
    active,      \* IDBTransaction.__active
    running,     \* IDBTransaction.__running
    errored,     \* IDBTransaction.__errored
    txError,     \* IDBTransaction.error: "null" or "err"
    requests,    \* IDBTransaction.__requests: sequence of [id, kind]
    i,           \* the index i of executeRequests' closure
    q,           \* the current queue entry q of the closure (its id, 0 = null)
    readyState,  \* IDBRequest.readyState of every request handle created
    result,      \* what the handle holds: "none", "value" or "error"
    mode,        \* IDBTransaction.mode
    startTimer,  \* the constructor's setTimeout is pending
    abortTimers, \* number of pending setTimeout callbacks of abort()
    session,     \* the WebSQL transaction: none, opening, open, committing, failing, ended
    inflight,    \* id of the operation whose statement awaits its callback (0 = none)
    sync,        \* still inside the turn that constructed the transaction
    nextId,      \* next request handle to create
    aborts,      \* number of abort() calls so far
    lastCall,    \* outcome of the facade call made in the latest turn, if any
    log,         \* history of the events, in the order they happened
    db,          \* IDBDatabase: __objectStores, objectStoreNames, and the rows of __sys__
    store,       \* IDBObjectStore: keyPath, autoIncrement, and its table in the backend
    last,        \* the latest operation on the store, with what it resolved with
    added,       \* for every key, the value the latest successful add stored under it
    live         \* the keys that add and put resolved with and no delete or clear removed

vars == <<active, running, errored, txError, requests, i, q, readyState, result, mode,
          startTimer, abortTimers, session, inflight, sync, nextId, aborts, lastCall,
          log, db, store, last, added, live>>

\* The transaction and the database.
txVars == <<active, running, errored, txError, requests, i, q, readyState, result, mode,
            startTimer, abortTimers, session, inflight, sync, nextId, aborts, lastCall,
            log, db>>

\* The store, its table, and what is remembered of the operations on it.
dataVars == <<store, last, added, live>>

\* The state as one record, the form the code operators work on, when a turn
\* begins: no facade call was made in it yet and no exception is propagating.
State ==
    [active |-> active, running |-> running, errored |-> errored, error |-> txError,
     requests |-> requests, i |-> i, q |-> q, readyState |-> readyState,
     result |-> result, mode |-> mode, abortTimers |-> abortTimers,
     inflight |-> inflight, nextId |-> nextId, aborts |-> aborts,
     lastCall |-> "none", log |-> log, db |-> db, exc |-> FALSE]

Ev(type, id) == <<type, id>>

Emit(s, type, id) == [s EXCEPT !.log = Append(@, Ev(type, id))]

Bind(S, F(_)) == UNION { F(s) : s \in S }

Throw(s) == [s EXCEPT !.exc = TRUE]

Caught(s) == [s EXCEPT !.exc = FALSE]

(***************************************************************************)
(* IDBTransaction.prototype.abort: the flag falls at once, the "abort"     *)
(* event is left to a timer.                                               *)
(***************************************************************************)
\* abort() firing "onabort" itself instead of leaving it to a timer.
abort_FiresSynchronously(s) ==
    Emit(Emit([s EXCEPT !.active = FALSE], "abortcall", 0), "abort", 0)

abort(s) ==
    [Emit([s EXCEPT !.active = FALSE], "abortcall", 0) EXCEPT !.abortTimers = @ + 1]

\* A facade call that throws: the exception's name is what the caller sees.
Fail(s, name) == Throw([s EXCEPT !.lastCall = name])

\* __assertActive
assertActive(s) == s.active

\* __assertWritable letting every mode write.
assertWritable_Always(s) == TRUE

\* __assertWritable
assertWritable(s) == s.mode # "readonly"

\* __createRequest and __pushToQueue (also reached through __addToTransactionQueue)
\* __pushToQueue without its call of __assertActive.
pushToQueue_NoActiveCheck(s, kind) ==
    [s EXCEPT
        !.requests = Append(@, [id |-> s.nextId, kind |-> kind]),
        !.readyState[s.nextId] = "pending",
        !.nextId = @ + 1,
        !.lastCall = "queued"]

pushToQueue(s, kind) ==
    IF ~assertActive(s)
    THEN Fail(s, "TransactionInactiveError")
    ELSE [s EXCEPT
            !.requests = Append(@, [id |-> s.nextId, kind |-> kind]),
            !.readyState[s.nextId] = "pending",
            !.nextId = @ + 1,
            !.lastCall = "queued"]

(***************************************************************************)
(* The facade.  arg is the shape of the call's argument: "missing" (no     *)
(* argument given), "invalid" (__validateKey or Key.validate rejects it)   *)
(* or "valid".  The checks run in the order of the source.                 *)
(***************************************************************************)
add(s, arg) ==
    IF arg = "missing" THEN Fail(s, "TypeError")
    ELSE IF arg = "invalid" THEN Fail(s, "DataError")
    ELSE IF ~assertWritable(s) THEN Fail(s, "ReadOnlyError")
    ELSE pushToQueue(s, "add")

put(s, arg) ==
    IF arg = "missing" THEN Fail(s, "TypeError")
    ELSE IF arg = "invalid" THEN Fail(s, "DataError")
    ELSE IF ~assertWritable(s) THEN Fail(s, "ReadOnlyError")
    ELSE pushToQueue(s, "put")

get(s, arg) ==
    IF arg = "missing" THEN Fail(s, "TypeError")
    ELSE IF arg = "invalid" THEN Fail(s, "DataError")
    ELSE pushToQueue(s, "get")

delete(s, arg) ==
    IF arg = "missing" THEN Fail(s, "TypeError")
    ELSE IF ~assertWritable(s) THEN Fail(s, "ReadOnlyError")
    ELSE IF arg = "invalid" THEN Fail(s, "DataError")
    ELSE pushToQueue(s, "delete")

clear(s, arg) ==
    IF ~assertWritable(s) THEN Fail(s, "ReadOnlyError")
    ELSE pushToQueue(s, "clear")

\* count with a key or without one (a key range goes to the cursor module)
count(s, arg) ==
    IF arg = "invalid" THEN Fail(s, "DataError")
    ELSE pushToQueue(s, "count")

Facade(s, kind, arg) ==
    CASE kind = "add" -> add(s, arg)
      [] kind = "put" -> put(s, arg)
      [] kind = "get" -> get(s, arg)
      [] kind = "delete" -> delete(s, arg)
      [] kind = "clear" -> clear(s, arg)
      [] kind = "count" -> count(s, arg)

(***************************************************************************)
(* The schema operations, which IDBDatabase calls with itself and a store.  *)
(***************************************************************************)
\* IDBTransaction.__assertVersionChange(tx), tx being db.__versionTransaction
assertVersionChange(s) == s.mode = "versionchange"

\* Array.prototype.indexOf, 0-based, -1 when absent
indexOf(list, name) ==
    IF \E n \in 1..Len(list) : list[n] = name
    THEN (CHOOSE n \in 1..Len(list) :
             list[n] = name /\ \A m \in 1..(n - 1) : list[m] # name) - 1
    ELSE -1

\* Array.prototype.splice(start, 1): a negative start counts from the end
splice(list, start) ==
    LET from == IF start >= 0 THEN start
                ELSE IF Len(list) + start < 0 THEN 0 ELSE Len(list) + start
    IN IF from >= Len(list) THEN list
       ELSE SubSeq(list, 1, from) \o SubSeq(list, from + 2, Len(list))

\* IDBObjectStore.__createObjectStore(db, store)
createObjectStore(s, name) ==
    LET s1 == [s EXCEPT !.db.objectStores = @ \union {name},
                        !.db.objectStoreNames = Append(@, name)]
    IN IF ~assertVersionChange(s1) THEN Fail(s1, "InvalidStateError")
       ELSE pushToQueue(s1, "createObjectStore")

\* IDBObjectStore.__deleteObjectStore(db, store)
deleteObjectStore(s, name) ==
    LET s1 == [s EXCEPT !.db.objectStores = @ \ {name},
                        !.db.objectStoreNames = splice(@, indexOf(@, name))]
    IN IF ~assertVersionChange(s1) THEN Fail(s1, "InvalidStateError")
       ELSE pushToQueue(s1, "deleteObjectStore")

\* A call is in the model's bounds if it cannot create a handle past MaxOps.
InBounds(s) == s.nextId <= MaxOps \/ ~s.active

(***************************************************************************)
(* util.callback(name, target, event) runs the user's handler, if any,     *)
(* synchronously and lets its exception through.  A handler does nothing,  *)
(* throws, calls abort(), or places one more request (an exception of that *)
(* call leaves the handler).                                               *)
(***************************************************************************)
callback(s) ==
    {s, Throw(s)}
    \union (IF s.aborts < MaxAborts THEN {abort([s EXCEPT !.aborts = @ + 1])} ELSE {})
    \union (IF InBounds(s) THEN { Facade(s, k, "valid") : k \in OpKinds } ELSE {})

(***************************************************************************)
(* The closures of __executeRequests.                                      *)
(***************************************************************************)

\* transactionError(err) without its guard on __errored.
transactionError_NoGuard(s) ==
    LET s1 == [s EXCEPT !.errored = TRUE] IN
    IF ~s1.active THEN {Throw(Emit(s1, "throw", 0))}
    ELSE LET s2 == Emit([s1 EXCEPT !.error = "err"], "txerror", 0) IN
         Bind(callback(s2),
              LAMBDA t : IF t.exc THEN {abort(t)}
                         ELSE { abort(u) : u \in callback(Emit(t, "dberror", 0)) })

\* transactionError(err): the guard on __errored, the throw when the
\* transaction is no longer active, else "onerror" on the transaction and
\* on the database, and abort() in the finally clause.
transactionError(s) ==
    IF s.errored THEN {s}
    ELSE LET s1 == [s EXCEPT !.errored = TRUE] IN
         IF ~s1.active THEN {Throw(Emit(s1, "throw", 0))}
         ELSE LET s2 == Emit([s1 EXCEPT !.error = "err"], "txerror", 0) IN
              Bind(callback(s2),
                   LAMBDA t : IF t.exc THEN {abort(t)}
                              ELSE { abort(u) : u \in callback(Emit(t, "dberror", 0)) })

\* transactionFinished(): "oncomplete"; a throwing handler marks the
\* transaction errored and the exception goes on.
transactionFinished(s) ==
    { IF t.exc THEN Emit([t EXCEPT !.errored = TRUE], "globalerror", 0) ELSE t :
        t \in callback(Emit(s, "complete", 0)) }

\* error(tx, err): the handle of q fails, "onerror" of the request, and
\* transactionError in the finally clause whatever the handler did.
error(s) ==
    LET s1 == Emit([s EXCEPT !.readyState[s.q] = "done", !.result[s.q] = "error"],
                   "error", s.q)
    IN Bind(callback(s1),
            LAMBDA t : { [r EXCEPT !.exc = r.exc \/ t.exc] :
                            r \in transactionError(Caught(t)) })

\* What the procedure of a queued operation does when it is called:
\*   "issue"   it hands a statement to tx.executeSql and returns;
\*   "throw"   it throws before any statement (Sca.encode, Key.validate of
\*             line 290), which the catch of executeNextRequest receives;
\*   "failure" it calls the error continuation itself, from the catch of
\*             __insertData, before any statement.
OpBegin(kind) ==
    CASE kind = "add" -> {"issue", "throw", "failure"}
      [] kind = "put" -> {"issue", "throw"}
      [] OTHER -> {"issue"}

\* executeNextRequest() taking the queue from its end.
executeNextRequest_LastFirst(s) ==
    IF s.i >= Len(s.requests)
    THEN LET s1 == [s EXCEPT !.requests = <<>>] IN
         IF s1.active
         THEN transactionFinished([s1 EXCEPT !.active = FALSE])
         ELSE {s1}
    ELSE LET op == s.requests[Len(s.requests) - s.i]
             s1 == Emit([s EXCEPT !.q = op.id], "begin", op.id)
         IN UNION {
              CASE b = "issue" -> {[s1 EXCEPT !.inflight = op.id]}
                [] b = "throw" -> error(s1)
                [] b = "failure" ->
                     Bind(error(s1), LAMBDA t : IF t.exc THEN error(Caught(t)) ELSE {t})
              : b \in OpBegin(op.kind) }

\* executeNextRequest()
executeNextRequest(s) ==
    IF s.i >= Len(s.requests)
    THEN LET s1 == [s EXCEPT !.requests = <<>>] IN
         IF s1.active
         THEN transactionFinished([s1 EXCEPT !.active = FALSE])
         ELSE {s1}
    ELSE LET op == s.requests[s.i + 1]
             s1 == Emit([s EXCEPT !.q = op.id], "begin", op.id)
         IN UNION {
              CASE b = "issue" -> {[s1 EXCEPT !.inflight = op.id]}
                [] b = "throw" -> error(s1)
                [] b = "failure" ->
                     Bind(error(s1), LAMBDA t : IF t.exc THEN error(Caught(t)) ELSE {t})
              : b \in OpBegin(op.kind) }

\* success(result, req) without its last line, the call of executeNextRequest.
success_NoNext(s) ==
    LET s1 == Emit([s EXCEPT !.readyState[s.q] = "done", !.result[s.q] = "value"],
                   "success", s.q)
    IN { IF t.exc THEN t ELSE [t EXCEPT !.i = @ + 1] : t \in callback(s1) }

\* success(result, req) deciding whether the queue is finished from its
\* length before the handler ran.
success_StaleLength(s) ==
    LET s1 == Emit([s EXCEPT !.readyState[s.q] = "done", !.result[s.q] = "value"],
                   "success", s.q)
        wasLast == s.i + 1 >= Len(s.requests)
    IN Bind(callback(s1),
            LAMBDA t : IF t.exc THEN {t}
                       ELSE IF wasLast
                       THEN LET t1 == [t EXCEPT !.i = @ + 1, !.requests = <<>>] IN
                            IF t1.active
                            THEN transactionFinished([t1 EXCEPT !.active = FALSE])
                            ELSE {t1}
                       ELSE executeNextRequest([t EXCEPT !.i = @ + 1]))

\* success(result, req)
success(s) ==
    LET s1 == Emit([s EXCEPT !.readyState[s.q] = "done", !.result[s.q] = "value"],
                   "success", s.q)
    IN Bind(callback(s1),
            LAMBDA t : IF t.exc THEN {t}
                       ELSE executeNextRequest([t EXCEPT !.i = @ + 1]))

(***************************************************************************)
(* The statement callbacks of the operations' procedures.                  *)
(***************************************************************************)

\* objectStoreGet's callback: with no row, success() is called inside the
\* try whose catch swallows every exception, and success(value) follows.
getNoRows(s) ==
    Bind(success(s), LAMBDA t : IF t.exc THEN success(Caught(t)) ELSE {t})

\* createObjectStore's callbacks: CREATE TABLE, which succeeds only if the
\* table does not exist, then the INSERT into __sys__, then success(store).
createObjectStoreDone(s) ==
    IF StoreName \in s.db.sys THEN {}
    ELSE success([s EXCEPT !.db.sys = @ \union {StoreName}])

\* deleteObjectStore's callbacks: the SELECT on __sys__; with a row, DROP
\* TABLE, the DELETE from __sys__ and success(); with no row, nothing.
deleteObjectStoreDone(s) ==
    IF StoreName \in s.db.sys
    THEN success([s EXCEPT !.db.sys = @ \ {StoreName}])
    ELSE {s}

\* How the statement callback of an operation reports success.
OnStatementSuccess(s, kind) ==
    CASE kind = "get" -> success(s) \union getNoRows(s)
      [] kind = "createObjectStore" -> createObjectStoreDone(s)
      [] kind = "deleteObjectStore" -> deleteObjectStoreDone(s)
      [] OTHER -> success(s)

\* __deriveKey's callback of getNextAutoIncKey: the continuation runs inside
\* a try whose catch calls failure again.
deriveKeyFailure(s) ==
    Bind(error(s), LAMBDA t : IF t.exc THEN error(Caught(t)) ELSE {t})

\* How the statement callback of an operation reports failure.
\* createObjectStore's error callback throws; deleteObjectStore's SELECT has
\* no error callback, its DROP and DELETE call failure.
OnStatementError(s, kind) ==
    CASE kind = "add" -> error(s) \union deriveKeyFailure(s)
      [] kind = "createObjectStore" -> {Throw(s)}
      [] kind = "deleteObjectStore" -> {s} \union error(s)
      [] OTHER -> error(s)

KindOf(s, id) == (CHOOSE r \in { s.requests[n] : n \in 1..Len(s.requests) } : r.id = id).kind

(***************************************************************************)
(* The store's data.  A key is undefined, something Key.validate rejects,  *)
(* or a number; a value is a primitive, or an object whose property at the *)
(* store's key path is such a key.  The table of the store is the set of   *)
(* its rows; seq is the table's entry in sqlite_sequence (0: no entry),    *)
(* which an insert into a table with an AUTOINCREMENT column raises and no *)
(* DELETE lowers.  The backend runs each statement as SQL says: an INSERT  *)
(* fails exactly when a row with the same key exists.                      *)
(***************************************************************************)
Undefined == 0
NotAKey == -1
\* In place of a key in a value: the key path leads into something that is
\* not an object, so that no key is found there and none can be written.
Blocked == -2
KeyArgs == {Undefined, NotAKey} \union (1..MaxKey)
AllKeys == 1..(IF MaxKey > MaxSeq THEN MaxKey ELSE MaxSeq)
Payloads == {"x", "y"}
Values == [obj : {FALSE}, id : {Undefined}, data : Payloads]
             \union [obj : {TRUE}, id : KeyArgs \union {Blocked}, data : Payloads]
NoValue == [obj |-> FALSE, id |-> Undefined, data |-> "none"]

\* Key.validate(key): numbers are keys here, undefined and NotAKey are not.
KeyIsValid(k) == k >= 1

\* Key.getValue(value, keyPath)
KeyGetValue(value) == IF value.id = Blocked THEN Undefined ELSE value.id

\* Key.setValue(value, keyPath, key), which throws when the path cannot be written
KeyCanSetValue(value) == value.id # Blocked
KeySetValue(value, k) == [value EXCEPT !.id = k]

\* Key.encode(key)
KeyEncode(k) == <<"number", k>>

\* Sca.encode(value), Sca.decode(encoded); a cell of the table that is no
\* encoding of a value (ok is FALSE) makes Sca.decode throw.
ScaEncode(v) == [enc |-> v, ok |-> TRUE]
ScaDecode(c) == c.enc
Corrupt == [enc |-> NoValue, ok |-> FALSE]

\* What an operation resolves with: a key, a value, a count, no value, or an error.
ResKey(k) == [type |-> "key", n |-> k, v |-> NoValue, name |-> "none"]
ResValue(v) == [type |-> "value", n |-> 0, v |-> v, name |-> "none"]
ResCount(n) == [type |-> "count", n |-> n, v |-> NoValue, name |-> "none"]
ResUndefined == [type |-> "undefined", n |-> 0, v |-> NoValue, name |-> "none"]
ResError(name) == [type |-> "error", n |-> 0, v |-> NoValue, name |-> name]

\* A procedure's end: the store after it, and success(result) or error(result).
Done(st, outcome, res) == [st |-> st, outcome |-> outcome, result |-> res]

\* __validateKey accepting a missing key whether or not the store generates keys.
validateKey_IgnoresAutoIncrement(st, value, key) ==
    IF st.keyPath
    THEN IF key # Undefined THEN "DataError"
         ELSE IF value.obj
              THEN IF KeyGetValue(value) = Undefined THEN "ok"
                   ELSE IF KeyIsValid(KeyGetValue(value)) THEN "ok" ELSE "DataError"
              ELSE "DataError"
    ELSE IF key = Undefined THEN "ok"
         ELSE IF KeyIsValid(key) THEN "ok" ELSE "DataError"

\* IDBObjectStore.prototype.__validateKey(value, key)
validateKey(st, value, key) ==
    IF st.keyPath
    THEN IF key # Undefined THEN "DataError"
         ELSE IF value.obj
              THEN IF KeyGetValue(value) = Undefined
                   THEN IF st.autoIncrement THEN "ok" ELSE "DataError"
                   ELSE IF KeyIsValid(KeyGetValue(value)) THEN "ok" ELSE "DataError"
              ELSE "DataError"
    ELSE IF key = Undefined
         THEN IF st.autoIncrement THEN "ok" ELSE "DataError"
         ELSE IF KeyIsValid(key) THEN "ok" ELSE "DataError"

\* getNextAutoIncKey: the SELECT on sqlite_sequence and its callback
getNextAutoIncKey(st) == IF st.seq = 0 THEN 1 ELSE st.seq + 1

\* __deriveKey going on with the value as it is when the generated key
\* cannot be written into it.
deriveKey_IgnoresSetFailure(st, value, key) ==
    IF st.keyPath
    THEN IF KeyGetValue(value) = Undefined /\ st.autoIncrement
         THEN [key |-> getNextAutoIncKey(st),
               value |-> IF KeyCanSetValue(value)
                         THEN KeySetValue(value, getNextAutoIncKey(st)) ELSE value,
               ok |-> TRUE]
         ELSE [key |-> KeyGetValue(value), value |-> value, ok |-> TRUE]
    ELSE IF key = Undefined /\ st.autoIncrement
         THEN [key |-> getNextAutoIncKey(st), value |-> value, ok |-> TRUE]
         ELSE [key |-> key, value |-> value, ok |-> TRUE]

\* __deriveKey: the primary key, and the value, which receives a generated
\* key at its key path; ok is FALSE when failure(DataError) is called
\* because Key.setValue threw.
deriveKey(st, value, key) ==
    IF st.keyPath
    THEN IF KeyGetValue(value) = Undefined /\ st.autoIncrement
         THEN IF KeyCanSetValue(value)
              THEN [key |-> getNextAutoIncKey(st),
                    value |-> KeySetValue(value, getNextAutoIncKey(st)), ok |-> TRUE]
              ELSE [key |-> getNextAutoIncKey(st), value |-> value, ok |-> FALSE]
         ELSE [key |-> KeyGetValue(value), value |-> value, ok |-> TRUE]
    ELSE IF key = Undefined /\ st.autoIncrement
         THEN [key |-> getNextAutoIncKey(st), value |-> value, ok |-> TRUE]
         ELSE [key |-> key, value |-> value, ok |-> TRUE]

\* INSERT INTO the table: the key column is UNIQUE or the PRIMARY KEY.
SqlInsertFails(st, k) == \E r \in st.rows : r.key = KeyEncode(k)

SqlInsert(st, k, cell) ==
    [st EXCEPT !.rows = @ \union {[key |-> KeyEncode(k), value |-> cell]},
               !.seq = IF st.autoIncrement THEN @ + 1 ELSE @]

\* DELETE FROM the table WHERE key = ?
SqlDelete(st, k) == [st EXCEPT !.rows = { r \in @ : r.key # KeyEncode(k) }]

\* SELECT * FROM the table WHERE key = ?
SqlSelect(st, k) == { r \in st.rows : r.key = KeyEncode(k) }

\* __insertData
insertData(st, encoded, primaryKey) ==
    IF primaryKey # Undefined /\ ~KeyIsValid(primaryKey)
    THEN Done(st, "error", ResError("DataError"))
    ELSE IF SqlInsertFails(st, primaryKey)
    THEN Done(st, "error", ResError("ConstraintError"))
    ELSE Done(SqlInsert(st, primaryKey, encoded), "success",
              ResKey(ScaDecode(ScaEncode(primaryKey))))

\* objectStoreAdd encoding the value before the key is derived.
objectStoreAdd_EncodesFirst(st, value, key) ==
    LET d == deriveKey(st, value, key)
    IN IF ~d.ok THEN Done(st, "error", ResError("DataError"))
       ELSE insertData(st, ScaEncode(value), d.key)

\* objectStoreAdd
objectStoreAdd(st, value, key) ==
    LET d == deriveKey(st, value, key)
    IN IF ~d.ok THEN Done(st, "error", ResError("DataError"))
       ELSE insertData(st, ScaEncode(d.value), d.key)

\* objectStorePut without its DELETE.
objectStorePut_NoDelete(st, value, key) ==
    LET d == deriveKey(st, value, key)
    IN IF ~d.ok \/ ~KeyIsValid(d.key) THEN Done(st, "error", ResError("DataError"))
       ELSE insertData(st, ScaEncode(d.value), d.key)

\* objectStorePut
objectStorePut(st, value, key) ==
    LET d == deriveKey(st, value, key)
    IN IF ~d.ok \/ ~KeyIsValid(d.key) THEN Done(st, "error", ResError("DataError"))
       ELSE insertData(SqlDelete(st, d.key), ScaEncode(d.value), d.key)

\* objectStoreGet reporting an error for a value it cannot decode.
objectStoreGet_DecodeErrors(st, key) ==
    LET rows == SqlSelect(st, key)
    IN IF rows = {} THEN Done(st, "success", ResUndefined)
       ELSE LET row == CHOOSE r \in rows : TRUE
            IN IF ~row.value.ok THEN Done(st, "error", ResError("DataError"))
               ELSE Done(st, "success", ResValue(ScaDecode(row.value)))

\* objectStoreGet
objectStoreGet(st, key) ==
    LET rows == SqlSelect(st, key)
    IN IF rows = {} THEN Done(st, "success", ResUndefined)
       ELSE LET row == CHOOSE r \in rows : TRUE
            IN IF ~row.value.ok THEN Done(st, "success", ResUndefined)
               ELSE Done(st, "success", ResValue(ScaDecode(row.value)))

\* objectStoreDelete removing every row.
objectStoreDelete_All(st, key) ==
    Done([st EXCEPT !.rows = {}], "success", ResUndefined)

\* objectStoreDelete
objectStoreDelete(st, key) == Done(SqlDelete(st, key), "success", ResUndefined)

\* objectStoreClear
objectStoreClear(st) == Done([st EXCEPT !.rows = {}], "success", ResUndefined)

\* objectStoreCount
objectStoreCount(st, key) ==
    IF key = Undefined
    THEN Done(st, "success", ResCount(Cardinality(st.rows)))
    ELSE Done(st, "success", ResCount(Cardinality(SqlSelect(st, key))))

(***************************************************************************)
(* The state machine: one action is one turn of the event loop.            *)
(***************************************************************************)

\* new IDBTransaction(db, storeNames, mode): the state the constructor leaves,
\* inside the caller's turn, with the start timer set.
InitTransaction ==
    /\ active = TRUE
    /\ running = FALSE
    /\ errored = FALSE
    /\ txError = "null"
    /\ requests = <<>>
    /\ i = 0
    /\ q = 0
    /\ readyState = [id \in Ids |-> "none"]
    /\ result = [id \in Ids |-> "none"]
    /\ startTimer = TRUE
    /\ abortTimers = 0
    /\ session = "none"
    /\ inflight = 0
    /\ sync = TRUE
    /\ nextId = 1
    /\ aborts = 0
    /\ lastCall = "none"
    /\ log = <<>>

\* A database that holds the store, as it was created and committed.
WithStore ==
    [objectStores |-> {StoreName}, objectStoreNames |-> <<StoreName>>, sys |-> {StoreName}]

\* A database without the store.
WithoutStore == [objectStores |-> {}, objectStoreNames |-> <<>>, sys |-> {}]

\* No operation yet.
NoOp ==
    [kind |-> "none", value |-> NoValue, key |-> Undefined, outcome |-> "none",
     result |-> ResUndefined]

\* A store whose table is empty and was never written.
EmptyStore(kp, ai) == [keyPath |-> kp, autoIncrement |-> ai, rows |-> {}, seq |-> 0]

\* A store whose table holds one row, written by an earlier version, that
\* Sca.decode cannot read.
LegacyStore(kp, ai) ==
    [keyPath |-> kp, autoIncrement |-> ai, rows |-> {[key |-> KeyEncode(1), value |-> Corrupt]},
     seq |-> IF ai THEN 1 ELSE 0]

\* The scheduler's view: the operations' data plays no part.
InitNoData ==
    /\ store = EmptyStore(FALSE, FALSE)
    /\ last = NoOp
    /\ added = [k \in AllKeys |-> NoValue]
    /\ live = {}

\* A read-only or read-write transaction on the store of a database.
Init ==
    /\ InitTransaction
    /\ mode \in Modes
    /\ db = WithStore
    /\ InitNoData

\* The transaction db.__versionTransaction refers to when its mode is
\* "versionchange" (an upgrade is under way); with any other mode the
\* database has no version-change transaction.
InitSchema ==
    /\ InitTransaction
    /\ mode \in SchemaModes
    /\ db \in {WithStore, WithoutStore}
    /\ InitNoData

\* The state a turn ends in.
Commit(t) ==
    /\ active' = t.active
    /\ running' = t.running
    /\ errored' = t.errored
    /\ txError' = t.error
    /\ requests' = t.requests
    /\ i' = t.i
    /\ q' = t.q
    /\ readyState' = t.readyState
    /\ result' = t.result
    /\ abortTimers' = t.abortTimers
    /\ inflight' = t.inflight
    /\ nextId' = t.nextId
    /\ aborts' = t.aborts
    /\ lastCall' = t.lastCall
    /\ log' = t.log
    /\ db' = t.db
    /\ mode' = mode
    /\ UNCHANGED dataVars

\* The WebSQL transaction after one of its callbacks returned: an exception
\* of the callback fails it, a callback that queued no statement ends it.
AfterCallback(t) ==
    IF t.exc THEN "failing" ELSE IF t.inflight = 0 THEN "committing" ELSE "open"

\* User code calls a facade method with a well-formed argument, in the
\* constructing turn or in a turn of its own.
Call ==
    \E kind \in OpKinds :
        /\ InBounds(State)
        /\ Commit(Facade(State, kind, "valid"))
        /\ UNCHANGED <<startTimer, session, sync>>

\* IDBDatabase creates the store, in the constructing turn or in a later one.
CreateObjectStore ==
    /\ InBounds(State)
    /\ Len(db.objectStoreNames) < MaxStores
    /\ Commit(createObjectStore(State, StoreName))
    /\ UNCHANGED <<startTimer, session, sync>>

\* IDBDatabase deletes the store.
DeleteObjectStore ==
    /\ InBounds(State)
    /\ Commit(deleteObjectStore(State, StoreName))
    /\ UNCHANGED <<startTimer, session, sync>>

\* User code calls abort().
Abort ==
    /\ aborts < MaxAborts
    /\ Commit(abort([State EXCEPT !.aborts = @ + 1]))
    /\ UNCHANGED <<startTimer, session, sync>>

\* The turn that constructed the transaction returns to the event loop.
EndTurn ==
    /\ sync
    /\ sync' = FALSE
    /\ UNCHANGED <<active, running, errored, txError, requests, i, q, readyState, result,
                   mode, startTimer, abortTimers, session, inflight, nextId, aborts,
                   lastCall, log, db, store, last, added, live>>

\* __executeRequests up to getOpenDatabase: a second call returns at once.
executeRequests(s) ==
    IF s.running THEN s ELSE [s EXCEPT !.running = TRUE]

\* The start run by the constructor itself instead of a timer.
StartTimer_Synchronous ==
    /\ startTimer
    /\ startTimer' = FALSE
    /\ session' = IF running THEN session ELSE "opening"
    /\ Commit(executeRequests(State))
    /\ UNCHANGED sync

\* The constructor's timer fires.
StartTimer ==
    /\ ~sync
    /\ startTimer
    /\ startTimer' = FALSE
    /\ session' = IF running THEN session ELSE "opening"
    /\ Commit(executeRequests(State))
    /\ UNCHANGED sync

\* __executeRequests asking for a backend session whether or not it runs already.
startRequests_NoGuard(s, sess) ==
    [tx |-> [s EXCEPT !.running = TRUE], session |-> "opening"]

\* __executeRequests with the backend session it leaves behind: a call on a
\* running transaction returns before getOpenDatabase.
startRequests(s, sess) ==
    [tx |-> executeRequests(s), session |-> IF s.running THEN sess ELSE "opening"]

\* __executeRequests called by other code than the constructor's timer, at
\* any time.
ExecuteRequests ==
    LET r == startRequests(State, session) IN
    /\ Commit(r.tx)
    /\ session' = r.session
    /\ UNCHANGED <<startTimer, sync>>

\* db.transaction's callback executeRequests(tx): i = 0, q = null, executeNextRequest().
SessionBegin ==
    /\ ~sync
    /\ session = "opening"
    /\ \E t \in executeNextRequest([State EXCEPT !.i = 0, !.q = 0]) :
          /\ Commit(t)
          /\ session' = AfterCallback(t)
    /\ UNCHANGED <<startTimer, sync>>

\* The success callback of the statement in flight.
StatementSuccess ==
    /\ ~sync
    /\ session = "open"
    /\ inflight # 0
    /\ \E t \in OnStatementSuccess([State EXCEPT !.inflight = 0], KindOf(State, inflight)) :
          /\ Commit(t)
          /\ session' = AfterCallback(t)
    /\ UNCHANGED <<startTimer, sync>>

\* The error callback of the statement in flight; it does not return false,
\* so the WebSQL transaction fails after it.
StatementError ==
    /\ ~sync
    /\ session = "open"
    /\ inflight # 0
    /\ \E t \in OnStatementError([State EXCEPT !.inflight = 0], KindOf(State, inflight)) :
          /\ Commit(t)
          /\ session' = "failing"
    /\ UNCHANGED <<startTimer, sync>>

\* The WebSQL transaction commits; db.transaction was given no success callback.
SessionCommit ==
    /\ ~sync
    /\ session = "committing"
    /\ session' = "ended"
    /\ lastCall' = "none"
    /\ UNCHANGED <<active, running, errored, txError, requests, i, q, readyState, result,
                   mode, startTimer, abortTimers, inflight, sync, nextId, aborts, log, db,
                   store, last, added, live>>

\* webSqlError(err): the WebSQL transaction failed, no statement callback follows.
webSqlError(s) == transactionError([s EXCEPT !.inflight = 0])

SessionError ==
    /\ ~sync
    /\ session \in {"opening", "open", "committing", "failing"}
    /\ \E t \in webSqlError(State) : Commit(t)
    /\ session' = "ended"
    /\ UNCHANGED <<startTimer, sync>>

\* A timer of abort() fires "onabort".
AbortTimer ==
    /\ ~sync
    /\ abortTimers > 0
    /\ \E t \in callback(Emit([State EXCEPT !.abortTimers = @ - 1], "abort", 0)) : Commit(t)
    /\ UNCHANGED <<startTimer, session, sync>>

Next ==
    \/ Call
    \/ Abort
    \/ EndTurn
    \/ StartTimer
    \/ SessionBegin
    \/ StatementSuccess
    \/ StatementError
    \/ SessionCommit
    \/ SessionError
    \/ AbortTimer

Spec == Init /\ [][Next]_vars

\* The transaction when __executeRequests is also called from elsewhere.
NextRestart ==
    \/ Next
    \/ ExecuteRequests

RestartSpec == Init /\ [][NextRestart]_vars

\* The transaction of an upgrade, or a database without one: the schema
\* operations are called on it besides the transaction's own steps.
NextSchema ==
    \/ CreateObjectStore
    \/ DeleteObjectStore
    \/ Abort
    \/ EndTurn
    \/ StartTimer
    \/ SessionBegin
    \/ StatementSuccess
    \/ StatementError
    \/ SessionCommit
    \/ SessionError
    \/ AbortTimer

SchemaSpec == InitSchema /\ [][NextSchema]_vars

\* The scheduling the platform guarantees: the caller's turn ends, timers
\* fire, the backend runs the transaction callback and calls back once for
\* every statement, commits, and reports a transaction a callback failed.
Fairness ==
    /\ WF_vars(EndTurn)
    /\ WF_vars(StartTimer)
    /\ WF_vars(SessionBegin)
    /\ WF_vars(StatementSuccess \/ StatementError)
    /\ WF_vars(SessionCommit)
    /\ WF_vars(AbortTimer)
    /\ WF_vars(session = "failing" /\ SessionError)

FairSpec == Spec /\ Fairness

FairSchemaSpec == SchemaSpec /\ Fairness

(***************************************************************************)
(* The operations of one read-write transaction on a store, each taken     *)
(* from the call of the facade to the end of its queued procedure; the     *)
(* scheduler above runs them in the order of the calls, one at a time, and *)
(* stops at the first that fails.                                          *)
(***************************************************************************)
InitData ==
    /\ InitTransaction
    /\ mode = "readwrite"
    /\ db = WithStore
    /\ \E kp \in BOOLEAN, ai \in BOOLEAN :
          \/ store = EmptyStore(kp, ai) /\ live = {}
          \/ store = LegacyStore(kp, ai) /\ live = {1}
    /\ last = NoOp
    /\ added = [k \in AllKeys |-> NoValue]

KeyInputs == {Undefined, NotAKey} \union AllKeys

\* The shape of a write's arguments, as __validateKey sees them.
WriteShape(value, key) == IF validateKey(store, value, key) = "ok" THEN "valid" ELSE "invalid"

\* The shape of a key argument, as Key.validate sees it.
KeyShape(key) == IF KeyIsValid(key) THEN "valid" ELSE "invalid"

\* The value the caller holds after a write resolved with key k: with a key
\* path the key is at the key path of the value.
Held(value, k) == IF store.keyPath THEN [value EXCEPT !.id = k] ELSE value

\* The call was rejected by the facade with the exception named: nothing was queued.
Rejected(kind, value, key, name) ==
    /\ last' = [kind |-> kind, value |-> NoValue, key |-> Undefined, outcome |-> name,
                result |-> ResUndefined]
    /\ UNCHANGED <<store, added, live>>

\* The call was queued and its procedure ended as r says.
Ran(kind, value, key, r) ==
    /\ store' = r.st
    /\ last' = [kind |-> kind, value |-> value, key |-> key, outcome |-> r.outcome,
                result |-> r.result]

\* The values written: without a key path the property "id" of an object is
\* data like any other, and the objects written have none.
Written == IF store.keyPath THEN Values ELSE { v \in Values : v.id = Undefined }

\* No operation of the transaction has failed, and the sequence is in the model's bounds.
Running == last.outcome # "error"

CanInsert == store.autoIncrement => store.seq < MaxSeq

DataAdd ==
    /\ Running
    /\ \E value \in Written, key \in KeyArgs :
          LET t == add(State, WriteShape(value, key))
              r == objectStoreAdd(store, value, key)
          IN IF t.exc THEN Rejected("add", value, key, t.lastCall)
             ELSE /\ CanInsert
                  /\ Ran("add", value, key, r)
                  /\ IF r.outcome = "success"
                     THEN /\ added' = [added EXCEPT ![r.result.n] = Held(value, r.result.n)]
                          /\ live' = live \union {r.result.n}
                     ELSE UNCHANGED <<added, live>>
    /\ UNCHANGED txVars

DataPut ==
    /\ Running
    /\ \E value \in Written, key \in KeyArgs :
          LET t == put(State, WriteShape(value, key))
              r == objectStorePut(store, value, key)
          IN IF t.exc THEN Rejected("put", value, key, t.lastCall)
             ELSE /\ CanInsert
                  /\ Ran("put", value, key, r)
                  /\ IF r.outcome = "success"
                     THEN /\ added' = [added EXCEPT ![r.result.n] = NoValue]
                          /\ live' = live \union {r.result.n}
                     ELSE UNCHANGED <<added, live>>
    /\ UNCHANGED txVars

DataGet ==
    /\ Running
    /\ \E key \in KeyInputs :
          LET t == get(State, KeyShape(key))
              r == objectStoreGet(store, key)
          IN IF t.exc THEN Rejected("get", NoValue, key, t.lastCall)
             ELSE Ran("get", NoValue, key, r) /\ UNCHANGED <<added, live>>
    /\ UNCHANGED txVars

DataDelete ==
    /\ Running
    /\ \E key \in KeyInputs :
          LET t == delete(State, KeyShape(key))
              r == objectStoreDelete(store, key)
          IN IF t.exc THEN Rejected("delete", NoValue, key, t.lastCall)
             ELSE /\ Ran("delete", NoValue, key, r)
                  /\ added' = [added EXCEPT ![key] = NoValue]
                  /\ live' = live \ {key}
    /\ UNCHANGED txVars

DataClear ==
    /\ Running
    /\ LET t == clear(State, "missing")
           r == objectStoreClear(store)
       IN IF t.exc THEN Rejected("clear", NoValue, Undefined, t.lastCall)
          ELSE /\ Ran("clear", NoValue, Undefined, r)
               /\ added' = [k \in AllKeys |-> NoValue]
               /\ live' = {}
    /\ UNCHANGED txVars

DataCount ==
    /\ Running
    /\ \E key \in KeyInputs :
          LET t == count(State, IF key = Undefined THEN "missing" ELSE KeyShape(key))
              r == objectStoreCount(store, key)
          IN IF t.exc THEN Rejected("count", NoValue, key, t.lastCall)
             ELSE Ran("count", NoValue, key, r) /\ UNCHANGED <<added, live>>
    /\ UNCHANGED txVars

NextData ==
    \/ DataAdd
    \/ DataPut
    \/ DataGet
    \/ DataDelete
    \/ DataClear
    \/ DataCount

DataSpec == InitData /\ [][NextData]_vars

(***************************************************************************)
(* Reading the history.                                                    *)
(***************************************************************************)
Pos(type) == { p \in 1..Len(log) : log[p][1] = type }

PosOf(type, id) == { p \in 1..Len(log) : log[p] = Ev(type, id) }

Count(type) == Cardinality(Pos(type))

\* Positions at which the handle of request id was resolved.
Resolutions(id) == PosOf("success", id) \union PosOf("error", id)

\* Positions at which __active was set to false.
Inactivations == Pos("abortcall") \union Pos("complete")

\* The transaction was active when event p happened.
ActiveAt(p) == \A x \in Inactivations : x > p

\* Requests accepted so far.
Accepted == { id \in Ids : readyState[id] # "none" }

\* Requests whose procedure was called but whose handle was not resolved by position p.
InFlightAt(p) ==
    { id \in Ids : /\ \E b \in PosOf("begin", id) : b <= p
                   /\ \A r \in Resolutions(id) : r > p }

(***************************************************************************)
(* The claims.                                                             *)
(***************************************************************************)

\* C1: the operations of a transaction begin in the order they were queued
\* (request ids are given in that order, and the n-th begin is of request n),
\* an operation begins only after the handle of the one before it was
\* resolved, and when an operation begins no other one is in flight (the
\* set of operations in flight grows only when one begins).
C1_InOrderOneAtATime ==
    LET begins == SelectSeq(log, LAMBDA e : e[1] = "begin") IN
    /\ \A n \in 1..Len(begins) : begins[n][2] = n
    /\ \A b \in Pos("begin") :
          /\ log[b][2] > 1 => \E r \in Resolutions(log[b][2] - 1) : r < b
          /\ InFlightAt(b) \subseteq {log[b][2]}

\* Two operations were queued and both ran: the second began after the first resolved.
C1_Witness ==
    /\ PosOf("begin", 1) # {}
    /\ PosOf("begin", 2) # {}
    /\ Resolutions(2) # {}

\* C2: a transaction fires at most one terminal notification: "complete" and
\* "abort" never both fire, and neither fires twice.
C2_OneTerminalNotification ==
    Count("complete") + Count("abort") <= 1

\* C3, as stated: every facade call made once the transaction is inactive
\* fails with TransactionInactiveError and leaves the queue unchanged.
C3_InactiveAlwaysTransactionInactiveError ==
    [][(~active /\ lastCall' # "none") =>
          (lastCall' = "TransactionInactiveError" /\ requests' = requests)]_vars

\* The checks a facade call makes before it reaches __pushToQueue.
PassesValidation(kind, arg) ==
    /\ kind \in {"add", "put", "get", "delete"} => arg = "valid"
    /\ kind = "count" => arg # "invalid"
    /\ kind \in {"add", "put", "delete", "clear"} => mode # "readonly"

\* C3, amended: once the transaction is inactive every facade call fails and
\* leaves the queue and the handles unchanged; it fails with
\* TransactionInactiveError exactly when it passes the argument, key and
\* write-capability checks that come before the queue (otherwise with the
\* error of the first of those checks that fails); and a call is accepted
\* only while the active flag is true.
C3_RejectsInState ==
    /\ ~active =>
          \A kind \in AllKinds, arg \in ArgShapes :
              LET t == Facade(State, kind, arg) IN
              /\ t.exc
              /\ t.requests = requests /\ t.readyState = readyState /\ t.nextId = nextId
              /\ t.lastCall = "TransactionInactiveError" <=> PassesValidation(kind, arg)
    /\ active =>
          \A kind \in AllKinds, arg \in ArgShapes :
              LET t == Facade(State, kind, arg) IN
              PassesValidation(kind, arg) =>
                  (~t.exc /\ t.lastCall = "queued" /\ Len(t.requests) = Len(requests) + 1)
    /\ lastCall = "queued" => Accepted # {}
    /\ lastCall = "TransactionInactiveError" => ~active

\* No turn that starts with the transaction inactive queues a request or
\* creates a handle, and a turn that queued one started active.
C3_RejectsInStep ==
    /\ ~active =>
          /\ nextId' = nextId
          /\ \A id \in Ids : readyState[id] = "none" => readyState'[id] = "none"
          /\ requests' \in {requests, <<>>}
          /\ lastCall' \in {"none", "TransactionInactiveError", "ReadOnlyError"}
          /\ lastCall' = "ReadOnlyError" => mode = "readonly"
    /\ nextId' > nextId => active

C3_InactiveRejects == []C3_RejectsInState /\ [][C3_RejectsInStep]_vars

\* A call reached the queue of a transaction that had finished, and was refused.
C3_Witness ==
    /\ lastCall = "TransactionInactiveError"
    /\ Count("complete") = 1
    /\ requests = <<>>

\* C4: whenever the error continuation of a queued operation fires while the
\* transaction is active, the handle is resolved as failed and the
\* transaction-level error path runs after it: "onerror" on the transaction,
\* "onerror" on the database, then abort(); after it no operation begins and
\* "complete" never fires.
C4_ErrorPathAlwaysRuns ==
    \A id \in Ids : \A p \in PosOf("error", id) :
        ActiveAt(p) =>
            /\ \E a \in Pos("txerror"), b \in Pos("dberror"), c \in Pos("abortcall") :
                  p < a /\ a < b /\ b < c
            /\ \A x \in Pos("begin") \union Pos("complete") : x < p

\* C5: once abort() has been called no queued operation begins (so the handle
\* of an operation that had not begun never resolves).
C5_AbortDiscardsQueue ==
    \A a \in Pos("abortcall") : \A b \in Pos("begin") : b < a

\* C6: abort() leaves the transaction inactive when its turn ends, and no
\* turn fires more "abort" events than timers of earlier abort() calls were
\* pending when it began, and none after an abort() call of the same turn:
\* the event is never fired inside the abort() call.
C6_InactiveAtOnce == Pos("abortcall") # {} => ~active

C6_NotifiedLater ==
    LET new == (Len(log) + 1)..Len(log') IN
    /\ Cardinality({ p \in new : log'[p][1] = "abort" })
          <= (IF abortTimers > 0 THEN 1 ELSE 0)
    /\ \A p \in new : log'[p][1] = "abort" =>
          \A c \in new : log'[c][1] = "abortcall" => p < c

C6_AbortDeferred == []C6_InactiveAtOnce /\ [][C6_NotifiedLater]_vars

\* abort() was called while an operation was in flight and its event has not fired yet.
C6_Witness ==
    /\ Pos("abortcall") # {}
    /\ inflight # 0
    /\ abortTimers = 1
    /\ Count("abort") = 0

\* C7: a new transaction is active and not running; while the turn that
\* constructed it lasts nothing runs (no backend session, no operation
\* begun), and until the first operation begins every request accepted so
\* far, those of the constructing turn among them, is in the queue, pending.
C7_DeferredStart ==
    /\ (sync /\ Pos("abortcall") = {}) => active
    /\ sync => (~running /\ startTimer /\ session = "none" /\ Pos("begin") = {})
    /\ (Pos("begin") = {} /\ session \in {"none", "opening"}) =>
          /\ { requests[n].id : n \in 1..Len(requests) } = Accepted
          /\ \A id \in Accepted : readyState[id] = "pending"

\* Two requests were queued in the constructing turn and the start has not fired.
C7_Witness ==
    /\ sync
    /\ Len(requests) = 2
    /\ ~running

C9_ResolvedAtMostOnce ==
    \A id \in Ids : Cardinality(Resolutions(id)) <= 1

\* C10: when "complete" or "abort" is fired no request of the transaction is
\* pending or in flight, and none is resolved afterwards.
C10_TerminalAfterAllRequests ==
    \A n \in Pos("complete") \union Pos("abort") :
        /\ InFlightAt(n) = {}
        /\ \A id \in Accepted :
              /\ readyState[id] = "done"
              /\ \A r \in Resolutions(id) : r < n

\* The argument checks a facade call makes before it asks whether the
\* transaction can write.
PassesChecksBeforeWritable(kind, arg) ==
    /\ kind \in {"add", "put"} => arg = "valid"
    /\ kind = "delete" => arg # "missing"

Writes == {"add", "put", "delete", "clear"}

Rejections == {"TypeError", "DataError", "ReadOnlyError", "TransactionInactiveError"}

\* C12, as stated: a call that is rejected leaves the transaction as it was,
\* and on a read-only transaction every add, put, delete and clear fails with
\* ReadOnlyError while get and count are accepted.
C12_ReadOnlyAlwaysReadOnlyError ==
    \A kind \in AllKinds, arg \in ArgShapes :
        LET t == Facade(State, kind, arg) IN
        /\ t.exc => [t EXCEPT !.lastCall = "none", !.exc = FALSE] = State
        /\ (mode = "readonly" /\ kind \in Writes) => t.lastCall = "ReadOnlyError"

\* C12, amended: a call of add, put, get, delete, clear or count that is
\* rejected leaves the queue, the handles, the flags and the backend session
\* exactly as they were; on a read-only transaction every add, put, delete
\* and clear is rejected, with ReadOnlyError exactly when the argument checks
\* made before the write check pass (otherwise with their TypeError or
\* DataError); and get and count with a well-formed argument are accepted on
\* an active read-only transaction.
C12_FrameInState ==
    \A kind \in AllKinds, arg \in ArgShapes :
        LET t == Facade(State, kind, arg) IN
        /\ t.exc <=> ~(PassesValidation(kind, arg) /\ active)
        /\ t.exc =>
              /\ [t EXCEPT !.lastCall = "none", !.exc = FALSE] = State
              /\ t.lastCall \in Rejections
        /\ (mode = "readonly" /\ kind \in Writes) =>
              /\ t.exc
              /\ t.lastCall = "ReadOnlyError" <=> PassesChecksBeforeWritable(kind, arg)
        /\ (mode = "readonly" /\ active /\ kind \in {"get", "count"}
              /\ PassesValidation(kind, arg)) =>
              /\ t.lastCall = "queued"
              /\ t.requests = Append(requests, [id |-> nextId, kind |-> kind])

\* A step that is nothing but a rejected call (no event happened in it and it
\* is not the return of the constructing turn) changes nothing.
C12_FrameInStep ==
    (lastCall' \in Rejections /\ log' = log /\ sync' = sync) =>
        UNCHANGED <<active, running, errored, txError, requests, i, q, readyState, result,
                    mode, startTimer, abortTimers, session, inflight, sync, nextId>>

C12_RejectionFrame == []C12_FrameInState /\ [][C12_FrameInStep]_vars

\* On a read-only transaction a get was accepted and a write was rejected.
C12_Witness ==
    /\ mode = "readonly"
    /\ lastCall = "ReadOnlyError"
    /\ Len(requests) = 1
    /\ requests[1].kind = "get"

\* C20: the transaction and the database are each notified of an error at
\* most once; once the errored flag is set a further call of the finalizer
\* returns at once, and no turn records an error, notifies or throws from
\* the finalizer again.
C20_OnceInState ==
    /\ Count("txerror") <= 1
    /\ Count("dberror") <= 1
    /\ errored => transactionError(State) = {State}

C20_OnceInStep ==
    errored =>
        /\ errored'
        /\ txError' = txError
        /\ \A p \in (Len(log) + 1)..Len(log') :
              log'[p][1] \notin {"txerror", "dberror", "throw", "abortcall"}
                 \/ (log'[p][1] = "abortcall" /\ aborts' > aborts)

C20_ErrorFinalizerOnce == []C20_OnceInState /\ [][C20_OnceInStep]_vars

\* An operation failed, the finalizer notified and aborted, and the backend
\* session error called the finalizer a second time.
C20_Witness ==
    /\ Count("error") >= 1
    /\ Count("txerror") = 1
    /\ Count("dberror") = 1
    /\ session = "ended"
    /\ errored

\* C11: under fair scheduling every transaction eventually goes inactive and
\* fires a terminal notification ("complete" or "abort"), whatever units of
\* work were queued on it.
C11_EventuallyTerminal ==
    <>(~active /\ Count("complete") + Count("abort") >= 1)

\* C19: while the database has no version-change transaction, creating or
\* deleting a store fails with InvalidStateError, queues nothing, and leaves
\* the database's object stores and its list of store names as they were.
C19_SchemaOpsOnlyInVersionChange ==
    mode # "versionchange" =>
        \A t \in {createObjectStore(State, StoreName), deleteObjectStore(State, StoreName)} :
            /\ t.exc
            /\ t.lastCall = "InvalidStateError"
            /\ t.requests = requests
            /\ t.db.objectStores = db.objectStores
            /\ t.db.objectStoreNames = db.objectStoreNames

\* The latest step ran a queued write, read or removal to its end.
RanToEnd(op) == op.outcome \in {"success", "error"}

\* The key a write is for: the one in the value at the key path, the one
\* given with the value, or else the next generated one; none (Undefined)
\* when the generated key cannot be written into the value.
TargetKey(value, key) ==
    IF store.keyPath /\ value.id = Blocked THEN Undefined
    ELSE IF store.keyPath /\ value.id # Undefined THEN value.id
    ELSE IF ~store.keyPath /\ key # Undefined THEN key
    ELSE store.seq + 1

\* C13: add and put accept and reject the same calls; with a key path an
\* explicit key is a DataError, a value without a key at the key path is
\* accepted only with auto-increment (an object is then accepted, anything
\* else is a DataError), and a key found in the value must be a valid key;
\* without a key path a missing key is accepted exactly with
\* auto-increment and a given key must be a valid key; every rejection is
\* a DataError.
C13_ValidateKeyMatrix ==
    \A value \in Values, key \in KeyArgs :
        LET a == add(State, WriteShape(value, key)).lastCall
            p == put(State, WriteShape(value, key)).lastCall
            inValue == IF value.obj /\ value.id # Blocked THEN value.id ELSE Undefined
            accepted == a = "queued"
        IN /\ a = p
           /\ a \in {"queued", "DataError"}
           /\ store.keyPath =>
                 /\ key # Undefined => ~accepted
                 /\ (key = Undefined /\ inValue = Undefined) =>
                       /\ accepted => store.autoIncrement
                       /\ (store.autoIncrement /\ value.obj) => accepted
                 /\ (key = Undefined /\ inValue # Undefined) =>
                       (accepted <=> inValue \in 1..MaxKey)
           /\ ~store.keyPath =>
                 /\ key = Undefined => (accepted <=> store.autoIncrement)
                 /\ key # Undefined => (accepted <=> key \in 1..MaxKey)

\* On a store with a key path and auto-increment an add of an object without
\* a key was accepted, and ran.
C13_Witness ==
    /\ store.keyPath
    /\ store.autoIncrement
    /\ last.kind = "add"
    /\ last.outcome = "success"
    /\ last.value.id = Undefined
    /\ last.key = Undefined

\* C14: a put for a key that holds a row succeeds (no ConstraintError) and
\* leaves exactly one row for the key, holding the new value; an add for a
\* key that holds a row fails with ConstraintError and leaves every row as
\* it was.
C14_InStep ==
    LET op == last'
        k == TargetKey(op.value, op.key)
    IN /\ (op.kind = "put" /\ RanToEnd(op) /\ k \in live) =>
             /\ op.outcome = "success"
             /\ op.result = ResKey(k)
             /\ Cardinality(SqlSelect(store', k)) = 1
             /\ \A r \in SqlSelect(store', k) :
                   r.value.ok /\ ScaDecode(r.value) = Held(op.value, k)
       /\ (op.kind = "add" /\ RanToEnd(op) /\ k \in live) =>
             /\ op.outcome = "error"
             /\ op.result = ResError("ConstraintError")
             /\ store'.rows = store.rows

C15_InStep ==
    LET op == last' IN
    (/\ op.kind = "add"
     /\ RanToEnd(op)
     /\ store.autoIncrement
     /\ IF store.keyPath THEN op.value.id = Undefined ELSE op.key = Undefined) =>
        /\ op.outcome = "success"
        /\ op.result.type = "key"
        /\ store.rows = {} => op.result.n = 1
        /\ op.result.n = store.seq + 1

C15_AutoIncrementFromOne == [][C15_InStep]_vars

\* C16: a get of a key under which an add stored a value, with no put,
\* delete or clear of the key since, resolves with that value (the value the
\* caller holds, which carries its key at the key path); a get of a key that
\* holds no row resolves with no value.
C16_InState ==
    \A k \in AllKeys :
        /\ added[k] # NoValue =>
              objectStoreGet(store, k) = Done(store, "success", ResValue(added[k]))
        /\ k \notin live =>
              objectStoreGet(store, k) = Done(store, "success", ResUndefined)

C16_InStep ==
    LET op == last' IN
    (op.kind = "get" /\ RanToEnd(op)) =>
        /\ added[op.key] # NoValue => op.result = ResValue(added[op.key])
        /\ op.key \notin live => op.result = ResUndefined
        /\ op.outcome = "success"

C16_RoundTrip == []C16_InState /\ [][C16_InStep]_vars

\* A get resolved with the value an add had stored under a generated key.
C16_Witness ==
    /\ last.kind = "get"
    /\ last.result.type = "value"
    /\ last.result.v = added[last.key]
    /\ store.autoIncrement
    /\ store.keyPath
    /\ last.result.v.id = last.key

\* C18: count() resolves with the number of keys that add and put resolved
\* with and no delete or clear removed since, count(k) with 1 if k is one of
\* them and with 0 if not; delete(k) and clear() resolve with no value
\* whether or not a row existed, delete(k) leaves the rows of the other keys
\* as they were and clear() leaves none.
C18_InState ==
    /\ objectStoreCount(store, Undefined).result = ResCount(Cardinality(live))
    /\ \A k \in AllKeys :
          objectStoreCount(store, k).result = ResCount(IF k \in live THEN 1 ELSE 0)

C18_InStep ==
    LET op == last' IN
    /\ (op.kind = "count" /\ RanToEnd(op)) =>
          /\ op.outcome = "success"
          /\ op.result = ResCount(IF op.key = Undefined THEN Cardinality(live)
                                  ELSE IF op.key \in live THEN 1 ELSE 0)
          /\ last.kind = "clear" /\ RanToEnd(last) /\ op.key = Undefined => op.result.n = 0
    /\ (op.kind \in {"delete", "clear"} /\ RanToEnd(op)) =>
          /\ op.outcome = "success"
          /\ op.result = ResUndefined
    /\ (op.kind = "delete" /\ RanToEnd(op)) =>
          /\ \A k \in AllKeys \ {op.key} : SqlSelect(store', k) = SqlSelect(store, k)
          /\ SqlSelect(store', op.key) = {}
    /\ (op.kind = "clear" /\ RanToEnd(op)) => store'.rows = {}

C18_CountDeleteClear == []C18_InState /\ [][C18_InStep]_vars

\* Two keys were written, one was deleted, and count() resolved with 1.
C18_Witness ==
    /\ last.kind = "count"
    /\ last.key = Undefined
    /\ last.result = ResCount(1)
    /\ store.seq = 2

\* A store of each schema, empty or holding a row whose value does not decode.
Stores ==
    { EmptyStore(kp, ai) : kp \in BOOLEAN, ai \in BOOLEAN }
    \union { LegacyStore(kp, ai) : kp \in BOOLEAN, ai \in BOOLEAN }

\* The events an outcome of the current turn adds to the history.
NewEvents(t) == SubSeq(t.log, Len(log) + 1, Len(t.log))

\* C17: a get whose SELECT finds no row, or a row whose value does not
\* decode, resolves its handle as a success with no value: the handle's
\* success is the first thing that happens, the handle never fails, the
\* transaction's error path runs in that turn only for an operation begun
\* after it, and unless a handler throws the queue moves on, to the next
\* operation or to the end of the transaction.
C17_GetNoValueIsSuccess ==
    /\ \A st \in Stores, key \in AllKeys :
          (SqlSelect(st, key) = {} \/ \E r \in SqlSelect(st, key) : ~r.value.ok) =>
              objectStoreGet(st, key) = Done(st, "success", ResUndefined)
    /\ (~sync /\ session = "open" /\ inflight # 0 /\ KindOf(State, inflight) = "get") =>
          \A t \in OnStatementSuccess([State EXCEPT !.inflight = 0], "get") :
              LET new == NewEvents(t) IN
              /\ new # <<>>
              /\ new[1] = Ev("success", inflight)
              /\ t.readyState[inflight] = "done"
              /\ t.result[inflight] = "value"
              /\ \A n \in 1..Len(new) :
                    /\ new[n] # Ev("error", inflight)
                    /\ new[n][1] \in {"txerror", "dberror", "throw"} =>
                          \E m \in 1..(n - 1) : new[m][1] \in {"begin", "complete"}
              /\ ~t.exc =>
                    /\ t.i > i
                    /\ \/ t.requests = <<>>
                       \/ \E n \in 1..Len(new) : new[n][1] = "begin"

\* A get whose SELECT found no row resolved as a success twice over, its
\* handler having thrown the first time, it never failed, and the next
\* operation is in flight.
C17_Witness ==
    \E n \in 1..Len(requests) :
        /\ requests[n].kind = "get"
        /\ Cardinality(PosOf("success", requests[n].id)) = 2
        /\ PosOf("error", requests[n].id) = {}
        /\ inflight \notin {0, requests[n].id}
        /\ txError = "null"

\* Positions the current step adds to the history.
NewPos == (Len(log) + 1)..Len(log')

\* C21: when the finalizer of errors is first called on a transaction that is
\* inactive already, the errored flag is set and the error is thrown: the
\* transaction's error field stays as it was, neither the transaction nor the
\* database is notified, abort() is not called by the finalizer, and the
\* exception leaves the backend's callback (the backend session fails).
C21_InState ==
    (~active /\ ~errored) =>
        \A t \in transactionError(State) \union webSqlError(State) :
            /\ t.exc
            /\ t.errored
            /\ t.error = txError
            /\ t.abortTimers = abortTimers
            /\ SubSeq(t.log, Len(log) + 1, Len(t.log)) = <<Ev("throw", 0)>>

C21_InStep ==
    (~active /\ ~errored /\ errored') =>
        /\ txError' = txError
        /\ \E p \in NewPos : log'[p] = Ev("throw", 0)
        /\ \A p \in NewPos : log'[p][1] \notin {"txerror", "dberror"}
        /\ \A p \in NewPos : log'[p][1] = "abortcall" => aborts' > aborts
        /\ session' \in {"failing", "ended"}

C21_FirstErrorWhenInactiveThrows == []C21_InState /\ [][C21_InStep]_vars

\* C22: when the handler of "complete" throws, the transaction is marked
\* errored and the exception leaves the backend's callback; from then on the
\* transaction and the database are not notified of an error, "abort" is not
\* fired, and a backend session error changes nothing.
C22_InState ==
    Pos("globalerror") # {} =>
        /\ errored
        /\ Count("txerror") = 0
        /\ Count("dberror") = 0
        /\ Count("abort") = 0
        /\ webSqlError(State) = {[State EXCEPT !.inflight = 0]}

C22_InStep ==
    (\E p \in NewPos : log'[p][1] = "globalerror") => session' = "failing"

C22_CompleteHandlerFault == []C22_InState /\ [][C22_InStep]_vars

\* A request was accepted in the latest turn, after the backend session
\* began to take the queue, and the transaction is active.
EnqueuedWhileDraining ==
    /\ lastCall = "queued"
    /\ session = "open"
    /\ active

C23_InState ==
    /\ \A n \in Pos("complete") :
          \A id \in Accepted :
              /\ \E b \in PosOf("begin", id) : b < n
              /\ \E r \in PosOf("success", id) : r < n
    /\ (session = "ended" /\ ~errored) =>
          \A id \in Accepted : PosOf("begin", id) # {}
    /\ \A b \in Pos("begin") : \A c \in Pos("begin") :
          (b < c) => log[b][2] < log[c][2]

C23_InStep ==
    /\ nextId' > nextId => \A p \in NewPos : log'[p][1] # "complete"
    /\ (\E p \in NewPos : log'[p][1] = "complete") =>
          (i' >= Len(requests) /\ i' >= nextId' - 1 /\ requests' = <<>> /\ ~active')
    /\ session \notin {"none", "opening"} => session' # "opening"

C24_InState ==
    /\ running <=> session # "none"
    /\ ~startTimer => running
    /\ running =>
          /\ executeRequests(State) = State
          /\ startRequests(State, session) = [tx |-> State, session |-> session]

C24_InStep ==
    /\ running => running'
    /\ errored => errored'
    /\ ~active => ~active'
    /\ (running' /\ ~running) => (session = "none" /\ session' = "opening")
    /\ (session' = "opening" /\ session # "opening") => ~running

C24_FlagsMonotonic == []C24_InState /\ [][C24_InStep]_vars

\* The transaction was started by a call of __executeRequests, the timer of
\* the constructor is still to fire on the running transaction, and the
\* transaction has failed meanwhile: all three flags have changed.
C24_Witness ==
    /\ running
    /\ startTimer
    /\ errored
    /\ ~active
    /\ session = "ended"

\* C25: on a store with a key path and auto-increment, an add or a put of a
\* value that holds no key at the key path writes the generated key into the
\* value before it is encoded: when the operation succeeds, the one row of
\* the key it resolves with holds the value with that key at the key path;
\* when the key cannot be written into the value the operation fails with
\* DataError and the table is as it was.
C25_InState ==
    (store.keyPath /\ store.autoIncrement) =>
        \A value \in Values :
            (value.obj /\ value.id = Undefined) =>
                LET d == deriveKey(store, value, Undefined)
                IN d.ok /\ d.key = store.seq + 1 /\ d.value.id = d.key /\ d.value.data = value.data

C25_InStep ==
    LET op == last' IN
    (/\ store.keyPath
     /\ store.autoIncrement
     /\ op.kind \in {"add", "put"}
     /\ RanToEnd(op)
     /\ op.value.id \in {Undefined, Blocked}) =>
        /\ (op.value.id = Undefined /\ op.outcome = "success") =>
              /\ op.result = ResKey(store.seq + 1)
              /\ Cardinality(SqlSelect(store', op.result.n)) = 1
              /\ \A r \in SqlSelect(store', op.result.n) :
                    /\ r.value.ok
                    /\ ScaDecode(r.value).id = op.result.n
                    /\ ScaDecode(r.value).data = op.value.data
        /\ op.value.id = Blocked =>
              /\ op.outcome = "error"
              /\ op.result = ResError("DataError")
              /\ store' = store

C25_GeneratedKeyInRecord == []C25_InState /\ [][C25_InStep]_vars

\* A generated key was written into a value and stored with it, and a later
\* write of a value that cannot take the key failed with DataError.
C25_Witness ==
    /\ store.keyPath
    /\ store.autoIncrement
    /\ last.kind \in {"add", "put"}
    /\ last.value.id = Blocked
    /\ last.result = ResError("DataError")
    /\ \E k \in live : added[k] # NoValue /\ added[k].id = k
====
